---------------------------- MODULE Spec2Model ----------------------------
(***************************************************************************)
(* Verification model of the tornado windspeed predictor.                  *)
(*                                                                         *)
(*   TornadoPredictor (Old Version/models/tornado_predictor.py):           *)
(*       __init__, predict, predict_batch                                  *)
(*   the two estimators the predictor's pickled model can be               *)
(*       (a tree ensemble and a kernel regressor), as arrays               *)
(*                                                                         *)
(* Numbers.  Python floats are modelled as exact rationals [n, d] in       *)
(* lowest terms with d > 0; d = 0 marks a non-finite float (n = 1: +inf,   *)
(* n = -1: -inf, n = 0: nan), which is what numpy's division by zero       *)
(* yields.  Rounding error of binary floating point is not modelled.       *)
(***************************************************************************)
EXTENDS Integers, Sequences, FiniteSets, TLC

(***************************************************************************)
(* Bounds of the model                                                     *)
(***************************************************************************)
\* longest reading enumerated with every key order
MaxPairs == 3
\* longest data_list passed to predict_batch
MaxBatch == 2
\* most trees in an ensemble whose traversal is followed step by step
MaxTrees == 2
\* most support vectors in a kernel model whose sum is followed step by step
MaxSV == 2

(***************************************************************************)
(* Rational arithmetic                                                     *)
(***************************************************************************)
Abs(k) == IF k < 0 THEN -k ELSE k

RECURSIVE Gcd(_, _)
Gcd(a, b) == IF b = 0 THEN a ELSE Gcd(b, a % b)

\* the rational a / b in lowest terms; b = 0 gives the non-finite values
Frac(a, b) ==
    IF b = 0
    THEN [n |-> IF a > 0 THEN 1 ELSE IF a < 0 THEN -1 ELSE 0, d |-> 0]
    ELSE LET g == Gcd(Abs(a), Abs(b))
             s == IF b < 0 THEN -1 ELSE 1
         IN  [n |-> (s * a) \div g, d |-> (s * b) \div g]

R(k) == [n |-> k, d |-> 1]

IsFinite(x) == x.d # 0
IsNaN(x) == x.d = 0 /\ x.n = 0

RAdd(x, y) == Frac(x.n * y.d + y.n * x.d, x.d * y.d)
RSub(x, y) == Frac(x.n * y.d - y.n * x.d, x.d * y.d)
RMul(x, y) == Frac(x.n * y.n, x.d * y.d)
\* x / y as numpy divides: a zero divisor gives inf or nan, not an exception
RDiv(x, y) == Frac(x.n * y.d, x.d * y.n)

\* comparisons of floats: every comparison with nan is false
RLt(x, y) ==
    IF IsNaN(x) \/ IsNaN(y) THEN FALSE
    ELSE IF x.d = 0 /\ y.d = 0 THEN x.n < y.n
    ELSE IF x.d = 0 THEN x.n < 0
    ELSE IF y.d = 0 THEN y.n > 0
    ELSE x.n * y.d < y.n * x.d
RLeq(x, y) == (~IsNaN(x) /\ ~IsNaN(y)) /\ (x = y \/ RLt(x, y))
RGt(x, y) == RLt(y, x)

(***************************************************************************)
(* Python dictionaries: insertion-ordered sequences of <<key, value>>      *)
(* pairs with pairwise distinct keys.                                      *)
(***************************************************************************)
DictKeys(dict) == {dict[i][1] : i \in 1..Len(dict)}

IsDict(dict) == \A i, j \in 1..Len(dict) : dict[i][1] = dict[j][1] => i = j

\* dict.get(key, default)
DictGet(dict, key, default) ==
    IF \E i \in 1..Len(dict) : dict[i][1] = key
    THEN dict[CHOOSE i \in 1..Len(dict) : dict[i][1] = key][2]
    ELSE default

(***************************************************************************)
(* TornadoPredictor: the feature schema                                    *)
(***************************************************************************)
\* self.feature_names, set in __init__
feature_names ==
    << "CAPE", "SRH", "Lapse_0_3km", "PWAT", "Temperature", "Dewpoint",
       "CAPE_3km", "Lapse_3_6km", "Surface_RH", "RH_700_500",
       "Storm_Motion", "Total_TVS_Peaks" >>

\* two neighbouring lines of the row exchanged: Dewpoint before Temperature
ExtractFeatures_DewpointFirst(atmospheric_data) ==
    << DictGet(atmospheric_data, "CAPE", R(0)),
       DictGet(atmospheric_data, "SRH", R(0)),
       DictGet(atmospheric_data, "Lapse_0_3km", R(0)),
       DictGet(atmospheric_data, "PWAT", R(0)),
       DictGet(atmospheric_data, "Dewpoint", R(0)),
       DictGet(atmospheric_data, "Temperature", R(0)),
       DictGet(atmospheric_data, "CAPE_3km", R(0)),
       DictGet(atmospheric_data, "Lapse_3_6km", R(0)),
       DictGet(atmospheric_data, "Surface_RH", R(0)),
       DictGet(atmospheric_data, "RH_700_500", R(0)),
       DictGet(atmospheric_data, "Storm_Motion", R(0)),
       DictGet(atmospheric_data, "Total_TVS_Peaks", R(0)) >>

\* the row predict builds: one atmospheric_data.get(name, 0) per literal name
ExtractFeatures(atmospheric_data) ==
    << DictGet(atmospheric_data, "CAPE", R(0)),
       DictGet(atmospheric_data, "SRH", R(0)),
       DictGet(atmospheric_data, "Lapse_0_3km", R(0)),
       DictGet(atmospheric_data, "PWAT", R(0)),
       DictGet(atmospheric_data, "Temperature", R(0)),
       DictGet(atmospheric_data, "Dewpoint", R(0)),
       DictGet(atmospheric_data, "CAPE_3km", R(0)),
       DictGet(atmospheric_data, "Lapse_3_6km", R(0)),
       DictGet(atmospheric_data, "Surface_RH", R(0)),
       DictGet(atmospheric_data, "RH_700_500", R(0)),
       DictGet(atmospheric_data, "Storm_Motion", R(0)),
       DictGet(atmospheric_data, "Total_TVS_Peaks", R(0)) >>


(***************************************************************************)
(* The estimators a pickled model file holds, as their fitted arrays.      *)
(* Their predict methods are scikit-learn's; the algorithms below are the  *)
(* ones the specification states for the two array formats.                *)
(*                                                                         *)
(*   forest: [kind |-> "forest", trees |-> <<tree, ...>>]                  *)
(*     tree: [feature, threshold, value, children_left, children_right],   *)
(*           parallel sequences; node k (from 0) is at position k + 1      *)
(*   svr:    [kind |-> "svr", kernel, gamma, degree, coef0,                *)
(*            support_vectors, dual_coef, intercept]                       *)
(* A fitted SVR also keeps its settings C and epsilon; its gamma is the    *)
(* setting it was constructed with and fitted_gamma the number the fit     *)
(* resolved it to, which is the one its predict uses.                      *)
(***************************************************************************)
RECURSIVE SumSeq(_)
SumSeq(s) == IF s = <<>> THEN R(0) ELSE RAdd(Head(s), SumSeq(Tail(s)))

RECURSIVE RPow(_, _)
RPow(x, k) == IF k = 0 THEN R(1) ELSE RMul(x, RPow(x, k - 1))

\* exp(r): exact at 0; elsewhere the series of e^|r| cut after the linear
\* term (and its reciprocal for r < 0), which keeps exp positive, monotone
\* and equal to 1 only at 0
ExpR(r) ==
    LET a == IF r.n < 0 THEN [n |-> -r.n, d |-> r.d] ELSE r
        s == RAdd(R(1), a)
    IN  IF r.n = 0 THEN R(1) ELSE IF r.n < 0 THEN RDiv(R(1), s) ELSE s

At(seq, k) == seq[k + 1]

NodeCount(tree) == Len(tree.feature)

ValidNode(tree, node) == node \in 0..(NodeCount(tree) - 1)

\* leaf <=> both children are the sentinel -1
IsLeaf(tree, node) ==
    At(tree.children_left, node) = -1 /\ At(tree.children_right, node) = -1

\* the comparison taken as strict: equality goes right
NextNode_EqualGoesRight(tree, node, x) ==
    IF RLt(x[At(tree.feature, node) + 1], At(tree.threshold, node))
    THEN At(tree.children_left, node)
    ELSE At(tree.children_right, node)

\* one traversal step from a non-leaf node: <= threshold goes left
NextNode(tree, node, x) ==
    IF RLeq(x[At(tree.feature, node) + 1], At(tree.threshold, node))
    THEN At(tree.children_left, node)
    ELSE At(tree.children_right, node)

\* a step can be taken without reading outside the node arrays or the vector
CanStep(tree, node, x) ==
    /\ ValidNode(tree, node)
    /\ node + 1 \in DOMAIN tree.threshold
    /\ node + 1 \in DOMAIN tree.children_left
    /\ node + 1 \in DOMAIN tree.children_right
    /\ (~IsLeaf(tree, node) => At(tree.feature, node) + 1 \in DOMAIN x)

Raised(e) == [ok |-> FALSE, error |-> e]
Returned(v) == [ok |-> TRUE, value |-> v]

\* the leaf value reached from `node`; fuel bounds the walk by the node count
RECURSIVE Traverse(_, _, _, _)
Traverse(tree, node, x, fuel) ==
    IF ~CanStep(tree, node, x) \/ fuel = 0 THEN Raised("CorruptArtifact")
    ELSE IF IsLeaf(tree, node)
         THEN IF node + 1 \in DOMAIN tree.value
              THEN Returned(At(tree.value, node))
              ELSE Raised("CorruptArtifact")
         ELSE Traverse(tree, NextNode(tree, node, x), x, fuel - 1)

TreePredict(tree, x) == Traverse(tree, 0, x, NodeCount(tree))

\* the trees' outputs added up and not divided by their number
MeanOf_NotDivided(outs) == SumSeq(outs)

\* the unweighted mean of the trees' outputs
MeanOf(outs) == RDiv(SumSeq(outs), R(Len(outs)))

ForestPredict(model, x) ==
    LET outs == [t \in 1..Len(model.trees) |-> TreePredict(model.trees[t], x)]
    IN  IF \E t \in 1..Len(outs) : ~outs[t].ok THEN Raised("CorruptArtifact")
        ELSE Returned(MeanOf([t \in 1..Len(outs) |-> outs[t].value]))

Dot(u, v) == SumSeq([i \in 1..Len(u) |-> RMul(u[i], v[i])])

SqDist(u, v) ==
    SumSeq([i \in 1..Len(u) |-> RMul(RSub(u[i], v[i]), RSub(u[i], v[i]))])

\* the polynomial kernel without its constant term coef0
KernelValue_PolyWithoutCoef0(model, sv, x) ==
    IF model.kernel = "linear" THEN Dot(sv, x)
    ELSE IF model.kernel = "poly"
         THEN RPow(RMul(model.gamma, Dot(sv, x)), model.degree)
         ELSE ExpR(RSub(R(0), RMul(model.gamma, SqDist(sv, x))))

\* K(sv, x) for the three kernels
KernelValue(model, sv, x) ==
    IF model.kernel = "linear" THEN Dot(sv, x)
    ELSE IF model.kernel = "poly"
         THEN RPow(RAdd(RMul(model.gamma, Dot(sv, x)), model.coef0), model.degree)
         ELSE ExpR(RSub(R(0), RMul(model.gamma, SqDist(sv, x))))

\* the vector is compared with the support vectors' columns only
ShapeOK_ColumnsOnly(model, x) ==
    \A j \in 1..Len(model.support_vectors) : Len(model.support_vectors[j]) = Len(x)

\* the vector has 12 entries, as many as every support vector has columns
ShapeOK(model, x) ==
    /\ Len(x) = 12
    /\ \A j \in 1..Len(model.support_vectors) : Len(model.support_vectors[j]) = Len(x)

\* intercept + sum_j dual_coef[j] * K(sv_j, x)
KernelPredict(model, x) ==
    IF ~ShapeOK(model, x) THEN Raised("ShapeMismatch")
    ELSE Returned(RAdd(model.intercept,
                       SumSeq([j \in 1..Len(model.support_vectors) |->
                                  RMul(model.dual_coef[j],
                                       KernelValue(model, model.support_vectors[j], x))])))

\* self.model.predict(features_scaled)[0]; scikit-learn validates its input
\* and refuses inf and nan with a ValueError
ModelPredict(model, x) ==
    IF \E i \in 1..Len(x) : ~IsFinite(x[i]) THEN Raised("ValueError")
    ELSE IF model.kind = "forest" THEN ForestPredict(model, x)
    ELSE KernelPredict([model EXCEPT !.gamma = model.fitted_gamma], x)

(***************************************************************************)
(* TornadoPredictor.predict                                                *)
(***************************************************************************)
\* the mean left in: x / scale_
ScalerTransform_MeanKept(scaler, features) ==
    [i \in 1..Len(features) |-> RDiv(features[i], scaler.scale[i])]

\* self.scaler.transform(features): (x - mean_) / scale_, elementwise
ScalerTransform(scaler, features) ==
    [i \in 1..Len(features) |->
        RDiv(RSub(features[i], scaler.mean[i]), scaler.scale[i])]

\* Python's min(a, b) and max(a, b): the first argument unless the second
\* compares strictly smaller (larger)
PyMin(a, b) == IF RLt(b, a) THEN b ELSE a
PyMax(a, b) == IF RGt(b, a) THEN b ELSE a

\* the bounds given to the wrong functions: min(50, max(400, prediction))
ClampPrediction_BoundsSwapped(prediction) == PyMin(R(50), PyMax(R(400), prediction))

\* max(50, min(400, prediction))
ClampPrediction(prediction) == PyMax(R(50), PyMin(R(400), prediction))

\* the integer nearest a / b (b > 0), ties to the even one
RoundHalfEven(a, b) ==
    LET q == a \div b
        r == a % b
    IN  IF 2 * r < b THEN q
        ELSE IF 2 * r > b THEN q + 1
        ELSE IF q % 2 = 0 THEN q ELSE q + 1

\* round(prediction): to a whole number
Round1_WholeNumber(x) == IF ~IsFinite(x) THEN x ELSE R(RoundHalfEven(x.n, x.d))

\* round(prediction, 1)
Round1(x) == IF ~IsFinite(x) THEN x ELSE Frac(RoundHalfEven(x.n * 10, x.d), 10)

\* the threshold taken as inclusive
Confidence_Inclusive(test_r2_score) ==
    IF RLeq(Frac(95, 100), test_r2_score) THEN "EXCELLENT" ELSE "GOOD"

\* 'EXCELLENT' if test_r2_score > 0.95 else 'GOOD'
Confidence(test_r2_score) ==
    IF RGt(test_r2_score, Frac(95, 100)) THEN "EXCELLENT" ELSE "GOOD"

\* the keys of model_info the returned dictionary reads
InfoKeysRead == {"model_name", "test_r2_score", "test_rmse"}

\* the reported RMSE read from the neighbouring key test_mae
Predict_RmseFromMae(self, atmospheric_data) ==
    LET out == ModelPredict(self.model,
                 ScalerTransform(self.scaler, ExtractFeatures(atmospheric_data)))
    IN  IF ~out.ok THEN out
        ELSE IF ~(InfoKeysRead \subseteq DOMAIN self.model_info) THEN Raised("KeyError")
        ELSE Returned(
               [predicted_windspeed_mph |-> Round1(ClampPrediction(out.value)),
                model_name     |-> self.model_info.model_name,
                model_r2_score |-> self.model_info.test_r2_score,
                model_rmse     |-> self.model_info.test_mae,
                confidence     |-> Confidence(self.model_info.test_r2_score),
                features_used  |-> self.feature_names])

\* predict(atmospheric_data) on predictor `self`:
\* the returned dictionary, or the exception that leaves the call
Predict(self, atmospheric_data) ==
    LET features == ExtractFeatures(atmospheric_data)
        features_scaled == ScalerTransform(self.scaler, features)
        out == ModelPredict(self.model, features_scaled)
    IN  IF ~out.ok THEN out
        ELSE IF ~(InfoKeysRead \subseteq DOMAIN self.model_info) THEN Raised("KeyError")
        ELSE Returned(
               [predicted_windspeed_mph |-> Round1(ClampPrediction(out.value)),
                model_name     |-> self.model_info.model_name,
                model_r2_score |-> self.model_info.test_r2_score,
                model_rmse     |-> self.model_info.test_rmse,
                confidence     |-> Confidence(self.model_info.test_r2_score),
                features_used  |-> self.feature_names])

\* the raw estimator output of the same call, before clamping
RawPrediction(self, atmospheric_data) ==
    ModelPredict(self.model,
                 ScalerTransform(self.scaler, ExtractFeatures(atmospheric_data)))

(***************************************************************************)
(* Files the predictor can find on disk                                    *)
(***************************************************************************)
NFeatures == 12

\* a 12-vector that is `fill` everywhere except at the given positions
Vec(fill, entries) ==
    [i \in 1..NFeatures |->
        IF \E e \in entries : e[1] = i
        THEN (CHOOSE e \in entries : e[1] = i)[2]
        ELSE fill]

\* a forest of one single-node tree: its root is a leaf of value v
LeafTree(v) ==
    [feature |-> <<-2>>, threshold |-> <<R(-2)>>, value |-> <<v>>,
     children_left |-> <<-1>>, children_right |-> <<-1>>]

ConstantForest(v) == [kind |-> "forest", trees |-> <<LeafTree(v)>>]

\* values a constant model is given: below, on, inside and above the bounds
LeafSamples ==
    {R(10), R(1000), R(50), R(400), Frac(12345, 100), Frac(39996, 100)}

\* node 0 splits on CAPE (feature 0), node 2 on SRH (feature 1)
TreeA ==
    [feature        |-> <<0, -2, 1, -2, -2>>,
     threshold      |-> <<R(2), R(-2), R(1), R(-2), R(-2)>>,
     value          |-> <<R(200), R(40), R(300), R(120), R(500)>>,
     children_left  |-> <<1, -1, 3, -1, -1>>,
     children_right |-> <<2, -1, 4, -1, -1>>]

\* node 0 splits on Total_TVS_Peaks (feature 11)
TreeB ==
    [feature        |-> <<11, -2, -2>>,
     threshold      |-> <<R(0), R(-2), R(-2)>>,
     value          |-> <<R(100), R(30), R(451)>>,
     children_left  |-> <<1, -1, -1>>,
     children_right |-> <<2, -1, -1>>]

SampleForest == [kind |-> "forest", trees |-> <<TreeA, TreeB>>]

TwoLeafForest ==
    [kind |-> "forest", trees |-> <<LeafTree(R(100)), LeafTree(R(200))>>]

SampleVectors ==
    << Vec(R(0), {<<1, R(1)>>, <<2, R(2)>>}),
       Vec(R(0), {<<1, R(3)>>, <<12, R(1)>>}) >>

SampleSVR(kernel) ==
    [kind |-> "svr", kernel |-> kernel, C |-> R(1), epsilon |-> Frac(1, 10),
     gamma |-> "scale", fitted_gamma |-> R(1), degree |-> 2,
     coef0 |-> R(1), support_vectors |-> SampleVectors,
     dual_coef |-> <<R(60), R(-20)>>, intercept |-> R(90)]

\* node 0's right child is not a node of the tree
DanglingTree ==
    [feature        |-> <<0, -2>>,
     threshold      |-> <<R(2), R(-2)>>,
     value          |-> <<R(0), R(60)>>,
     children_left  |-> <<1, -1>>,
     children_right |-> <<7, -1>>]

DanglingForest == [kind |-> "forest", trees |-> <<DanglingTree>>]

\* estimators a model file can hold: fitted ones, and a damaged one
ModelFiles ==
    {ConstantForest(v) : v \in LeafSamples}
        \cup {SampleForest, TwoLeafForest, DanglingForest}
        \cup {SampleSVR(k) : k \in {"linear", "poly", "rbf"}}

IdentityScaler == [mean |-> Vec(R(0), {}), scale |-> Vec(R(1), {})]

FittedScaler ==
    [mean  |-> Vec(R(0), {<<1, R(2)>>, <<2, R(1)>>}),
     scale |-> Vec(R(1), {<<1, R(2)>>, <<12, Frac(1, 2)>>})]

\* scale_ with a zero entry (CAPE) and with a negative entry (SRH)
ZeroScaleScaler == [mean |-> Vec(R(0), {}), scale |-> Vec(R(1), {<<1, R(0)>>})]
NegativeScaleScaler == [mean |-> Vec(R(0), {}), scale |-> Vec(R(1), {<<2, R(-1)>>})]

ScalerFiles == {IdentityScaler, FittedScaler, ZeroScaleScaler, NegativeScaleScaler}

\* model_info.json as models/tornado_model_trainer.py writes it
InfoV4(name, type, r2, rmse, mae) ==
    [model_type |-> type, model_name |-> name, feature_names |-> feature_names,
     test_r2_score |-> r2, test_rmse |-> rmse, test_mae |-> mae,
     cv_mean_r2 |-> r2, cv_std_r2 |-> Frac(1, 100),
     feature_importance |-> <<>>, model_version |-> "4.0"]

\* model_info.json as the single-model tornado_model_trainer.py writes it
InfoV3(r2) ==
    [model_type |-> "RandomForestRegressor", feature_names |-> feature_names,
     test_r2_score |-> r2, feature_importance |-> <<>>, model_version |-> "3.0"]

InfoFiles ==
    { InfoV4("SVM", "SVR", Frac(9852, 10000), Frac(461, 100), Frac(350, 100)),
      InfoV4("Random Forest", "RandomForestRegressor",
             Frac(9016, 10000), Frac(1106, 100), Frac(907, 100)),
      InfoV4("Ridge", "Ridge", Frac(95, 100), Frac(800, 100), Frac(600, 100)),
      InfoV4("AdaBoost", "AdaBoostRegressor", Frac(45, 100), Frac(3000, 100),
             Frac(2500, 100)),
      InfoV3(Frac(40, 100)) }

\* readings callers pass: empty, partial, complete, reordered, with a key
\* the schema does not know
ReadingSamples ==
    { <<>>,
      << <<"CAPE", R(3)>>, <<"SRH", R(2)>> >>,
      << <<"SRH", R(1)>>, <<"CAPE", R(1)>>, <<"Wind_Gust", R(9)>> >>,
      << <<"Total_TVS_Peaks", R(1)>>, <<"CAPE", Frac(5, 2)>> >>,
      [i \in 1..NFeatures |-> <<feature_names[i], R(i % 4)>>],
      [i \in 1..NFeatures |-> <<feature_names[NFeatures + 1 - i], R(1)>>] }

(***************************************************************************)
(* State                                                                   *)
(***************************************************************************)
VARIABLES
    pc,          \* the predictor object: "start", "ready" or "init_failed"
    predictor,   \* self: [model, scaler, feature_names, model_info]
    call,        \* the last predict call made directly: its argument and outcome
    data_list,   \* predict_batch: its argument
    results,     \* predict_batch: the list it is building
    bpc,         \* predict_batch: "idle", "loop", "returned" or "raised"
    sdata,       \* feature extraction alone: the reading
    svector,     \* feature extraction alone: the row built, <<>> before
    emodel,      \* ensemble prediction: the forest
    ex,          \* ensemble prediction: the input vector
    enode,       \* ensemble prediction: the node the walk is at
    epath,       \* ensemble prediction: the nodes visited in the current tree
    epaths,      \* ensemble prediction: the walks of the finished trees
    ereads,      \* ensemble prediction: positions of x compared so far
    eouts,       \* ensemble prediction: the finished trees' outputs
    epc,         \* ensemble prediction: "idle", "walk", "done" or "failed"
    eresult,     \* ensemble prediction: the value returned
    kmodel,      \* kernel prediction: the model
    kx,          \* kernel prediction: the input vector
    kacc,        \* kernel prediction: the sum so far
    kj,          \* kernel prediction: support vectors added so far
    kpc,         \* kernel prediction: "idle", "sum", "done" or "failed"
    kresult,     \* kernel prediction: the value returned
    exported,    \* the export scripts: the model_data written, NoFile before
    frames,      \* concurrent predict calls: each thread's locals and position
    trainer,     \* the multi-model trainer: its locals and position
    testrun,     \* test_training.py: what it found, printed and exited with
    pipeline     \* run_training.py: what it found, did and printed

pvars == <<pc, predictor, call, data_list, results, bpc>>
svars == <<sdata, svector>>
evars == <<emodel, ex, enode, epath, epaths, ereads, eouts, epc, eresult>>
kvars == <<kmodel, kx, kacc, kj, kpc, kresult>>
lvars == <<exported>>
tvars == <<frames>>
mvars == <<trainer>>
xvars == <<testrun>>
rvars == <<pipeline>>

vars == <<pvars, svars, evars, kvars, lvars, tvars, mvars, xvars, rvars>>

NoFile == [kind |-> "missing"]
NoPredictor == [kind |-> "none"]
NoCall == [kind |-> "none"]
NoModel == [kind |-> "none"]

PredictorIdle ==
    /\ pc = "start"
    /\ predictor = NoPredictor
    /\ call = NoCall
    /\ data_list = <<>>
    /\ results = <<>>
    /\ bpc = "idle"

SchemaIdle == sdata = <<>> /\ svector = <<>>

EnsembleIdle ==
    /\ emodel = NoModel
    /\ ex = <<>>
    /\ enode = 0
    /\ epath = <<>>
    /\ epaths = <<>>
    /\ ereads = {}
    /\ eouts = <<>>
    /\ epc = "idle"
    /\ eresult = R(0)

KernelIdle ==
    /\ kmodel = NoModel
    /\ kx = <<>>
    /\ kacc = R(0)
    /\ kj = 0
    /\ kpc = "idle"
    /\ kresult = R(0)

LoadIdle == exported = NoFile

ThreadIdle == frames = <<>>

TrainerIdle == trainer = NoCall

TestIdle == testrun = NoCall

PipelineIdle == pipeline = NoCall

\* readings predict_batch is called with
BatchReadings ==
    { <<>>,
      << <<"CAPE", R(3)>>, <<"SRH", R(2)>> >>,
      << <<"Total_TVS_Peaks", R(1)>>, <<"CAPE", Frac(5, 2)>> >> }

BatchInputs == UNION {[1..n -> BatchReadings] : n \in 0..MaxBatch}

(***************************************************************************)
(* TornadoPredictor.__init__, predict, predict_batch                       *)
(***************************************************************************)
\* __init__: joblib.load of the model and the scaler, json.load of
\* model_info.json; a missing file raises and no object is constructed.
\* Nothing that was read is examined.
NewPredictor(model_file, scaler_file, info_file) ==
    IF NoFile \in {model_file, scaler_file, info_file}
    THEN Raised("FileNotFoundError")
    ELSE Returned([model |-> model_file, scaler |-> scaler_file,
                   feature_names |-> feature_names, model_info |-> info_file])

Construct(model_file, scaler_file, info_file) ==
    /\ pc = "start"
    /\ LET new == NewPredictor(model_file, scaler_file, info_file)
       IN  IF new.ok
           THEN pc' = "ready" /\ predictor' = new.value
           ELSE pc' = "init_failed" /\ predictor' = NoPredictor
    /\ UNCHANGED <<call, data_list, results, bpc>>
    /\ UNCHANGED <<svars, evars, kvars, lvars, tvars, mvars, xvars, rvars>>

\* one predict call made by the caller
PredictCall(atmospheric_data) ==
    /\ pc = "ready"
    /\ bpc # "loop"
    /\ call' = [kind |-> "predict", data |-> atmospheric_data,
                outcome |-> Predict(predictor, atmospheric_data)]
    /\ data_list' = <<>>
    /\ results' = <<>>
    /\ bpc' = "idle"
    /\ UNCHANGED <<pc, predictor>>
    /\ UNCHANGED <<svars, evars, kvars, lvars, tvars, mvars, xvars, rvars>>

\* predict_batch(data_list): results = []
BatchCall(list) ==
    /\ pc = "ready"
    /\ bpc # "loop"
    /\ data_list' = list
    /\ results' = <<>>
    /\ bpc' = "loop"
    /\ call' = NoCall
    /\ UNCHANGED <<pc, predictor>>
    /\ UNCHANGED <<svars, evars, kvars, lvars, tvars, mvars, xvars, rvars>>

\* the loop body inserting at the front: results.insert(0, ...)
BatchIterate_InsertsFirst ==
    /\ bpc = "loop"
    /\ Len(results) < Len(data_list)
    /\ LET out == Predict(predictor, data_list[Len(results) + 1])
       IN  IF out.ok
           THEN results' = <<out.value>> \o results /\ bpc' = "loop"
           ELSE results' = results /\ bpc' = "raised"
    /\ UNCHANGED <<pc, predictor, call, data_list>>
    /\ UNCHANGED <<svars, evars, kvars, lvars, tvars, mvars, xvars, rvars>>

\* the loop body with the call guarded: on an exception a default result,
\* the lower bound with no metadata, is appended and the loop goes on
BatchIterate_SubstitutesDefault ==
    /\ bpc = "loop"
    /\ Len(results) < Len(data_list)
    /\ LET out == Predict(predictor, data_list[Len(results) + 1])
       IN  results' = Append(results,
                             IF out.ok THEN out.value
                             ELSE [predicted_windspeed_mph |-> R(50)])
    /\ UNCHANGED <<pc, predictor, call, data_list, bpc>>
    /\ UNCHANGED <<svars, evars, kvars, lvars, tvars, mvars, xvars, rvars>>

\* the body of the for loop: results.append(self.predict(data));
\* an exception of predict leaves predict_batch
BatchIterate ==
    /\ bpc = "loop"
    /\ Len(results) < Len(data_list)
    /\ LET out == Predict(predictor, data_list[Len(results) + 1])
       IN  IF out.ok
           THEN results' = Append(results, out.value) /\ bpc' = "loop"
           ELSE results' = results /\ bpc' = "raised"
    /\ UNCHANGED <<pc, predictor, call, data_list>>
    /\ UNCHANGED <<svars, evars, kvars, lvars, tvars, mvars, xvars, rvars>>

\* return results
BatchReturn ==
    /\ bpc = "loop"
    /\ Len(results) = Len(data_list)
    /\ bpc' = "returned"
    /\ UNCHANGED <<pc, predictor, call, data_list, results>>
    /\ UNCHANGED <<svars, evars, kvars, lvars, tvars, mvars, xvars, rvars>>

Init == PredictorIdle /\ SchemaIdle /\ EnsembleIdle /\ KernelIdle /\ LoadIdle /\ ThreadIdle /\ TrainerIdle /\ TestIdle /\ PipelineIdle

Next ==
    \/ \E m \in ModelFiles \cup {NoFile}, sc \in ScalerFiles \cup {NoFile},
          info \in InfoFiles \cup {NoFile} : Construct(m, sc, info)
    \/ \E r \in ReadingSamples : PredictCall(r)
    \/ \E list \in BatchInputs : BatchCall(list)
    \/ BatchIterate
    \/ BatchReturn

Spec == Init /\ [][Next]_vars

(***************************************************************************)
(* Properties of predict and predict_batch                                 *)
(***************************************************************************)
\* the 12 canonical names, in order
CanonicalNames ==
    << "CAPE", "SRH", "Lapse_0_3km", "PWAT", "Temperature", "Dewpoint",
       "CAPE_3km", "Lapse_3_6km", "Surface_RH", "RH_700_500",
       "Storm_Motion", "Total_TVS_Peaks" >>

\* every <<reading, result>> in the state: the direct call's, if it returned,
\* and the ones predict_batch has collected
Observed ==
    (IF call.kind = "predict" /\ call.outcome.ok
     THEN {<<call.data, call.outcome.value>>} ELSE {})
        \cup {<<data_list[i], results[i]>> : i \in 1..Len(results)}

Below50(x) == x.d > 0 /\ x.n < 50 * x.d
Above400(x) == x.d > 0 /\ x.n > 400 * x.d
Within50To400(x) == x.d > 0 /\ 50 * x.d <= x.n /\ x.n <= 400 * x.d

\* C1: every windspeed predict returns lies in [50, 400]; a raw output below
\* 50 gives 50, one above 400 gives 400, and one inside [50, 400] is left
\* where it is by the clamp (the result is then within rounding, 0.05, of it)
C1_WindspeedClamped ==
    \A o \in Observed :
        LET raw == RawPrediction(predictor, o[1]).value
            w == o[2].predicted_windspeed_mph
        IN  /\ Within50To400(w)
            /\ Below50(raw) => w = R(50)
            /\ Above400(raw) => w = R(400)
            /\ Within50To400(raw) =>
                   /\ ClampPrediction(raw) = raw
                   /\ 20 * Abs(w.n * raw.d - raw.n * w.d) <= w.d * raw.d

\* one batch holds a result raised to 50 and a result lowered to 400
C1_Witness ==
    /\ \E o \in Observed :
           Below50(RawPrediction(predictor, o[1]).value)
               /\ o[2].predicted_windspeed_mph = R(50)
    /\ \E o \in Observed :
           Above400(RawPrediction(predictor, o[1]).value)
               /\ o[2].predicted_windspeed_mph = R(400)

\* C3: the confidence label is "EXCELLENT" exactly when the metadata's
\* test_r2_score is strictly greater than 0.95 and "GOOD" otherwise; there is
\* no third label and the reading plays no part
C3_ConfidenceLabel ==
    \A o \in Observed :
        LET r2 == predictor.model_info.test_r2_score
        IN  /\ o[2].confidence \in {"EXCELLENT", "GOOD"}
            /\ o[2].confidence = "EXCELLENT" <=> 100 * r2.n > 95 * r2.d

\* a result labelled "GOOD" at test_r2_score = 0.95 exactly
C3_Witness ==
    \E o \in Observed :
        /\ predictor.model_info.test_r2_score = Frac(95, 100)
        /\ o[2].confidence = "GOOD"

\* C4: predict_batch returns one result per reading, in order, each equal to
\* what predict returns for that reading alone; it raises exactly when
\* predict raises for the first reading not yet answered
C4_BatchIsMapOfPredict ==
    /\ bpc \in {"loop", "returned", "raised"} =>
          /\ Len(results) <= Len(data_list)
          /\ \A i \in 1..Len(results) :
                LET alone == Predict(predictor, data_list[i])
                IN  alone.ok /\ results[i] = alone.value
    /\ bpc = "returned" => Len(results) = Len(data_list)
    /\ bpc = "raised" =>
          /\ Len(results) < Len(data_list)
          /\ ~Predict(predictor, data_list[Len(results) + 1]).ok

\* a returned batch of two different readings with two different results
C4_Witness ==
    /\ bpc = "returned"
    /\ Len(data_list) >= 2
    /\ data_list[1] # data_list[2]
    /\ results[1] # results[2]

\* C5: model name, R2 and RMSE of every result are the loaded metadata's
\* model_name, test_r2_score and test_rmse, and the feature-name list is the
\* canonical one, whatever the reading and the prediction
C5_MetadataCopied ==
    \A o \in Observed :
        /\ o[2].model_name = predictor.model_info.model_name
        /\ o[2].model_r2_score = predictor.model_info.test_r2_score
        /\ o[2].model_rmse = predictor.model_info.test_rmse
        /\ o[2].features_used = CanonicalNames

\* two results of one batch with different windspeeds and the same metadata
C5_Witness ==
    /\ Len(results) >= 2
    /\ results[1].predicted_windspeed_mph # results[2].predicted_windspeed_mph
    /\ results[1].model_name = "Random Forest"
    /\ results[2].model_rmse = Frac(1106, 100)

\* C9: a scaler with a scale entry <= 0 is refused when it is loaded, so the
\* scaler of a constructed predictor, the only one predict divides by, has
\* positive scale entries only
C9_NonPositiveScaleRefused ==
    pc = "ready" =>
        \A i \in 1..NFeatures : predictor.scaler.scale[i].n > 0

(***************************************************************************)
(* The feature extraction of predict, on its own, over many readings       *)
(***************************************************************************)
\* keys a caller may use: the twelve of the schema and one it does not know
CallerKeys == CanonicalNames \o << "Wind_Gust" >>

\* the reading holding exactly the keys at positions S of CallerKeys, in
\* that order, the key at position i with value i + 10
ReadingOfKeys(S) ==
    LET chosen == SelectSeq([i \in 1..Len(CallerKeys) |-> i], LAMBDA i : i \in S)
    IN  [j \in 1..Len(chosen) |-> <<CallerKeys[chosen[j]], R(chosen[j] + 10)>>]

\* every dictionary of at most MaxPairs of these keys, in every insertion
\* order, the key at position i with value -i/2
ShortReadings ==
    LET Pairs == {<<CallerKeys[i], Frac(-i, 2)>> : i \in 1..Len(CallerKeys)}
    IN  {d \in UNION {[1..n -> Pairs] : n \in 0..MaxPairs} : IsDict(d)}

SchemaReadings ==
    {ReadingOfKeys(S) : S \in SUBSET (1..Len(CallerKeys))} \cup ShortReadings

SchemaInit ==
    /\ sdata \in SchemaReadings
    /\ svector = <<>>
    /\ PredictorIdle /\ EnsembleIdle /\ KernelIdle /\ LoadIdle /\ ThreadIdle /\ TrainerIdle /\ TestIdle /\ PipelineIdle

\* features = np.array([[atmospheric_data.get(...), ...]])
SchemaExtract ==
    /\ svector = <<>>
    /\ svector' = ExtractFeatures(sdata)
    /\ UNCHANGED <<sdata, pvars, evars, kvars, lvars, tvars, mvars, xvars, rvars>>

SchemaNext == SchemaExtract

SpecSchema == SchemaInit /\ [][SchemaNext]_vars

\* C2: for every reading the row has exactly 12 entries, entry i being the
\* reading's value for canonical name i when the reading has that key and 0
\* when it has not; other keys and the order of the keys change nothing, and
\* no reading makes the extraction fail
C2_MapToVector ==
    /\ svector = <<>> => ENABLED SchemaExtract
    /\ svector # <<>> =>
          /\ Len(svector) = 12
          /\ \A i \in 1..12 :
                IF CanonicalNames[i] \in DictKeys(sdata)
                THEN \E j \in 1..Len(sdata) :
                        sdata[j] = <<CanonicalNames[i], svector[i]>>
                ELSE svector[i] = R(0)

\* a row built from a reading that has an unknown key, lacks CAPE and lists
\* Dewpoint before Temperature
C2_Witness ==
    /\ svector # <<>>
    /\ "Wind_Gust" \in DictKeys(sdata)
    /\ "CAPE" \notin DictKeys(sdata)
    /\ Len(sdata) >= 2
    /\ sdata[1][1] = "Dewpoint"
    /\ sdata[2][1] = "Temperature"
    /\ svector[5] # svector[6]

(***************************************************************************)
(* Ensemble prediction followed node by node                               *)
(***************************************************************************)
\* a tree of one split on feature f at threshold t
SplitTree(f, t, left, right) ==
    [feature        |-> <<f, -2, -2>>,
     threshold      |-> <<t, R(-2), R(-2)>>,
     value          |-> <<R(0), left, right>>,
     children_left  |-> <<1, -1, -1>>,
     children_right |-> <<2, -1, -1>>]

\* node 1's children lead back to node 0
CyclicTree ==
    [feature        |-> <<0, 1, -2>>,
     threshold      |-> <<R(2), R(5), R(-2)>>,
     value          |-> <<R(0), R(0), R(60)>>,
     children_left  |-> <<2, 0, -1>>,
     children_right |-> <<1, 0, -1>>]

EnsembleTrees ==
    { LeafTree(R(123)), LeafTree(R(100)), LeafTree(R(200)), TreeA, TreeB,
      SplitTree(1, Frac(3, 2), R(80), R(91)), DanglingTree, CyclicTree }

EnsembleModels ==
    {[kind |-> "forest", trees |-> ts] :
        ts \in UNION {[1..n -> EnsembleTrees] : n \in 1..MaxTrees}}

\* input vectors: CAPE below, on and above TreeA's threshold, and so on; and
\* one vector that is too short
EnsembleInputs ==
    {Vec(R(0), {<<1, a>>, <<2, b>>, <<12, c>>}) :
        a \in {R(0), R(2), R(3)}, b \in {R(1), R(2)}, c \in {R(0), R(1)}}
        \cup {<<R(3)>>}

CurrentTree == emodel.trees[Len(eouts) + 1]

\* the walk's length compared strictly: one node too few
WalkSound_BoundOffByOne ==
    /\ CanStep(CurrentTree, enode, ex)
    /\ Len(epath) < NodeCount(CurrentTree)
    /\ (IsLeaf(CurrentTree, enode) => enode + 1 \in DOMAIN CurrentTree.value)

\* the walk's length is not watched
WalkSound_LengthUnwatched ==
    /\ CanStep(CurrentTree, enode, ex)
    /\ (IsLeaf(CurrentTree, enode) => enode + 1 \in DOMAIN CurrentTree.value)

\* the walk may go on: the node and what it reads exist, and the walk has
\* not entered more nodes than the tree has
WalkSound ==
    /\ CanStep(CurrentTree, enode, ex)
    /\ Len(epath) <= NodeCount(CurrentTree)
    /\ (IsLeaf(CurrentTree, enode) => enode + 1 \in DOMAIN CurrentTree.value)

EnsembleInit ==
    /\ emodel \in EnsembleModels
    /\ ex \in EnsembleInputs
    /\ enode = 0
    /\ epath = <<0>>
    /\ epaths = <<>>
    /\ ereads = {}
    /\ eouts = <<>>
    /\ epc = "walk"
    /\ eresult = R(0)
    /\ PredictorIdle /\ SchemaIdle /\ KernelIdle /\ LoadIdle /\ ThreadIdle /\ TrainerIdle /\ TestIdle /\ PipelineIdle

\* at a non-leaf node: compare and move to a child
EnsembleDescend ==
    /\ epc = "walk"
    /\ WalkSound
    /\ ~IsLeaf(CurrentTree, enode)
    /\ enode' = NextNode(CurrentTree, enode, ex)
    /\ epath' = Append(epath, enode')
    /\ ereads' = ereads \cup {At(CurrentTree.feature, enode)}
    /\ UNCHANGED <<emodel, ex, epaths, eouts, epc, eresult>>
    /\ UNCHANGED <<pvars, svars, kvars, lvars, tvars, mvars, xvars, rvars>>

\* at a leaf: the tree's output is value[leaf]; on to the next tree
EnsembleLeaf ==
    /\ epc = "walk"
    /\ WalkSound
    /\ IsLeaf(CurrentTree, enode)
    /\ eouts' = Append(eouts, At(CurrentTree.value, enode))
    /\ epaths' = Append(epaths, epath)
    /\ enode' = 0
    /\ epath' = <<0>>
    /\ epc' = IF Len(eouts') = Len(emodel.trees) THEN "mean" ELSE "walk"
    /\ UNCHANGED <<emodel, ex, ereads, eresult>>
    /\ UNCHANGED <<pvars, svars, kvars, lvars, tvars, mvars, xvars, rvars>>

\* all trees answered: the prediction is the mean of their outputs
EnsembleMean ==
    /\ epc = "mean"
    /\ eresult' = MeanOf(eouts)
    /\ epc' = "done"
    /\ UNCHANGED <<emodel, ex, enode, epath, epaths, ereads, eouts>>
    /\ UNCHANGED <<pvars, svars, kvars, lvars, tvars, mvars, xvars, rvars>>

\* the walk cannot go on: CorruptArtifact, and no value
EnsembleCorrupt ==
    /\ epc = "walk"
    /\ ~WalkSound
    /\ epc' = "failed"
    /\ UNCHANGED <<emodel, ex, enode, epath, epaths, ereads, eouts, eresult>>
    /\ UNCHANGED <<pvars, svars, kvars, lvars, tvars, mvars, xvars, rvars>>

EnsembleNext ==
    \/ EnsembleDescend
    \/ EnsembleLeaf
    \/ EnsembleMean
    \/ EnsembleCorrupt

SpecEnsemble == EnsembleInit /\ [][EnsembleNext]_vars

\* the parallel arrays have one length, every node is a leaf (both children
\* -1) or has two children that are nodes further on in the tree, and a
\* non-leaf's feature is a position of the 12-vector
WellFormedTree(tree) ==
    LET n == NodeCount(tree)
    IN  /\ n >= 1
        /\ Len(tree.threshold) = n /\ Len(tree.value) = n
        /\ Len(tree.children_left) = n /\ Len(tree.children_right) = n
        /\ \A k \in 0..(n - 1) :
              \/ At(tree.children_left, k) = -1 /\ At(tree.children_right, k) = -1
              \/ /\ At(tree.children_left, k) \in (k + 1)..(n - 1)
                 /\ At(tree.children_right, k) \in (k + 1)..(n - 1)
                 /\ At(tree.feature, k) \in 0..(NFeatures - 1)

WellFormedForest(model) ==
    /\ Len(model.trees) >= 1
    /\ \A t \in 1..Len(model.trees) : WellFormedTree(model.trees[t])

\* path p in tree follows the rule of the traversal on x and ends in a leaf
FollowsRule(tree, p, x) ==
    /\ p[1] = 0
    /\ \A k \in 1..(Len(p) - 1) :
          LET v == x[At(tree.feature, p[k]) + 1]
              t == At(tree.threshold, p[k])
          IN  /\ ~(At(tree.children_left, p[k]) = -1
                     /\ At(tree.children_right, p[k]) = -1)
              /\ p[k + 1] = IF v.n * t.d <= t.n * v.d
                            THEN At(tree.children_left, p[k])
                            ELSE At(tree.children_right, p[k])
    /\ At(tree.children_left, p[Len(p)]) = -1
    /\ At(tree.children_right, p[Len(p)]) = -1

\* C6: on a well-formed ensemble and a 12-vector the prediction succeeds;
\* each tree's output is value[leaf] for the leaf reached from node 0 by
\* going left when x[feature[node]] <= threshold[node] and right otherwise,
\* and the prediction is the sum of the trees' outputs divided by their
\* number; the one-step ForestPredict gives the same value
C6_TraversalAndMean ==
    /\ (WellFormedForest(emodel) /\ Len(ex) = NFeatures) => epc # "failed"
    /\ epc \in {"mean", "done"} =>
          /\ Len(eouts) = Len(emodel.trees) /\ Len(epaths) = Len(emodel.trees)
          /\ \A t \in 1..Len(emodel.trees) :
                /\ FollowsRule(emodel.trees[t], epaths[t], ex)
                /\ eouts[t] = At(emodel.trees[t].value, epaths[t][Len(epaths[t])])
    /\ epc = "done" =>
          /\ RMul(eresult, R(Len(emodel.trees))) = SumSeq(eouts)
          /\ ForestPredict(emodel, ex) = Returned(eresult)

\* a finished prediction over two trees in which a walk of three nodes met
\* x[feature] = threshold and went left
C6_Witness ==
    /\ epc = "done"
    /\ Len(emodel.trees) = 2
    /\ \E t \in 1..2 :
          /\ Len(epaths[t]) = 3
          /\ \E k \in 1..2 :
                /\ ex[At(emodel.trees[t].feature, epaths[t][k]) + 1]
                       = At(emodel.trees[t].threshold, epaths[t][k])
                /\ epaths[t][k + 1] = At(emodel.trees[t].children_left, epaths[t][k])

SingleLeafForest(model) ==
    \A t \in 1..Len(model.trees) :
        /\ model.trees[t].children_left = <<-1>>
        /\ model.trees[t].children_right = <<-1>>

\* C7: an ensemble of single-node trees returns the mean of the trees'
\* value[0] for every input vector and compares no entry of it; one tree of
\* value 123 gives 123, trees of values 100 and 200 give 150
C7_SingleLeafTrees ==
    (epc = "done" /\ SingleLeafForest(emodel)) =>
        /\ ereads = {}
        /\ \A t \in 1..Len(emodel.trees) : epaths[t] = <<0>>
        /\ RMul(eresult, R(Len(emodel.trees)))
               = SumSeq([t \in 1..Len(emodel.trees) |-> emodel.trees[t].value[1]])
        /\ emodel.trees = <<LeafTree(R(123))>> => eresult = R(123)
        /\ emodel.trees = <<LeafTree(R(100)), LeafTree(R(200))>> => eresult = R(150)

\* the trees of values 100 and 200 answered 150 for a non-zero vector
C7_Witness ==
    /\ epc = "done"
    /\ emodel.trees = <<LeafTree(R(100)), LeafTree(R(200))>>
    /\ eresult = R(150)
    /\ Len(ex) = NFeatures /\ ex[1] = R(3) /\ ex[12] = R(1)

(***************************************************************************)
(* Kernel prediction followed support vector by support vector             *)
(***************************************************************************)
KernelVectors ==
    { Vec(R(0), {<<1, R(1)>>, <<2, R(2)>>}),
      Vec(R(0), {<<1, R(3)>>, <<12, R(1)>>}),
      Vec(R(0), {<<2, Frac(1, 2)>>}) }

\* a support vector with its dual coefficient
SupportPairs ==
    { <<Vec(R(0), {<<1, R(1)>>, <<2, R(2)>>}), R(1)>>,
      <<Vec(R(0), {<<1, R(3)>>, <<12, R(1)>>}), R(-2)>>,
      <<Vec(R(0), {<<2, Frac(1, 2)>>}), R(3)>> }

\* kernel, gamma, degree, coef0
KernelSettings ==
    { <<"linear", R(1), 3, R(0)>>,
      <<"poly", R(1), 2, R(1)>>,
      <<"poly", Frac(1, 2), 3, R(2)>>,
      <<"rbf", R(1), 3, R(0)>>,
      <<"rbf", Frac(1, 2), 3, R(0)>> }

KernelModels ==
    {[kind |-> "svr", kernel |-> k[1], gamma |-> k[2], degree |-> k[3],
      coef0 |-> k[4],
      support_vectors |-> [j \in 1..Len(sp) |-> sp[j][1]],
      dual_coef |-> [j \in 1..Len(sp) |-> sp[j][2]],
      intercept |-> b] :
        k \in KernelSettings,
        sp \in UNION {[1..n -> SupportPairs] : n \in 1..MaxSV},
        b \in {R(0), R(90)}}
      \cup
    \* models whose support vectors have two columns
    {[kind |-> "svr", kernel |-> k[1], gamma |-> k[2], degree |-> k[3],
      coef0 |-> k[4],
      support_vectors |-> << <<R(1), R(2)>> >>,
      dual_coef |-> <<R(1)>>,
      intercept |-> R(0)] : k \in KernelSettings}

\* input vectors: the sample vectors, and one that is too short
KernelInputs == KernelVectors \cup {<<R(1), R(2)>>}

KernelInit ==
    /\ kmodel \in KernelModels
    /\ kx \in KernelInputs
    /\ kacc = R(0)
    /\ kj = 0
    /\ kpc = "sum"
    /\ kresult = R(0)
    /\ PredictorIdle /\ SchemaIdle /\ EnsembleIdle /\ LoadIdle /\ ThreadIdle /\ TrainerIdle /\ TestIdle /\ PipelineIdle

\* the vector does not have the shape of the support vectors: ShapeMismatch
KernelReject ==
    /\ kpc = "sum"
    /\ ~ShapeOK(kmodel, kx)
    /\ kpc' = "failed"
    /\ UNCHANGED <<kmodel, kx, kacc, kj, kresult>>
    /\ UNCHANGED <<pvars, svars, evars, lvars, tvars, mvars, xvars, rvars>>

\* add the next support vector's term dual_coef[j] * K(sv_j, x)
KernelAccumulate ==
    /\ kpc = "sum"
    /\ ShapeOK(kmodel, kx)
    /\ kj < Len(kmodel.support_vectors)
    /\ kacc' = RAdd(kacc, RMul(kmodel.dual_coef[kj + 1],
                               KernelValue(kmodel, kmodel.support_vectors[kj + 1], kx)))
    /\ kj' = kj + 1
    /\ UNCHANGED <<kmodel, kx, kpc, kresult>>
    /\ UNCHANGED <<pvars, svars, evars, lvars, tvars, mvars, xvars, rvars>>

\* every term added: add the intercept and return
KernelFinish ==
    /\ kpc = "sum"
    /\ ShapeOK(kmodel, kx)
    /\ kj = Len(kmodel.support_vectors)
    /\ kresult' = RAdd(kacc, kmodel.intercept)
    /\ kpc' = "done"
    /\ UNCHANGED <<kmodel, kx, kacc, kj>>
    /\ UNCHANGED <<pvars, svars, evars, lvars, tvars, mvars, xvars, rvars>>

KernelNext ==
    \/ KernelReject
    \/ KernelAccumulate
    \/ KernelFinish

SpecKernel == KernelInit /\ [][KernelNext]_vars

\* u . v and ||u - v||^2 over the first i positions
RECURSIVE DotTo(_, _, _)
DotTo(u, v, i) ==
    IF i = 0 THEN R(0) ELSE RAdd(DotTo(u, v, i - 1), RMul(u[i], v[i]))

RECURSIVE SqDistTo(_, _, _)
SqDistTo(u, v, i) ==
    IF i = 0 THEN R(0)
    ELSE RAdd(SqDistTo(u, v, i - 1), RMul(RSub(u[i], v[i]), RSub(u[i], v[i])))

\* the kernel as the contract states it
StatedKernel(model, sv, x) ==
    CASE model.kernel = "linear" -> DotTo(sv, x, 12)
      [] model.kernel = "poly" ->
            RPow(RAdd(RMul(model.gamma, DotTo(sv, x, 12)), model.coef0), model.degree)
      [] model.kernel = "rbf" ->
            ExpR(RMul(R(-1), RMul(model.gamma, SqDistTo(sv, x, 12))))

\* intercept + dual_coef[1] * K(sv_1, x) + ... + dual_coef[j] * K(sv_j, x)
RECURSIVE StatedSumTo(_, _, _)
StatedSumTo(model, x, j) ==
    IF j = 0 THEN model.intercept
    ELSE RAdd(StatedSumTo(model, x, j - 1),
              RMul(model.dual_coef[j], StatedKernel(model, model.support_vectors[j], x)))

\* C8: the kernel prediction is the intercept plus the sum over all support
\* vectors of dual_coef[j] * K(sv_j, x), K being the dot product (linear),
\* (gamma * (sv_j . x) + coef0) ^ degree (poly) or exp(-gamma * ||sv_j - x||^2)
\* (rbf); with one support vector equal to x, dual_coef = [1], intercept 0
\* and rbf with gamma = 1 it is exactly 1; the one-step KernelPredict gives
\* the same value
C8_KernelSum ==
    kpc = "done" =>
        /\ kresult = StatedSumTo(kmodel, kx, Len(kmodel.support_vectors))
        /\ KernelPredict(kmodel, kx) = Returned(kresult)
        /\ ( /\ kmodel.kernel = "rbf" /\ kmodel.gamma = R(1)
             /\ kmodel.support_vectors = <<kx>>
             /\ kmodel.dual_coef = <<R(1)>> /\ kmodel.intercept = R(0) )
              => kresult = R(1)

\* the single-support-vector rbf case answered 1
C8_Witness ==
    /\ kpc = "done"
    /\ kmodel.kernel = "rbf" /\ kmodel.gamma = R(1)
    /\ kmodel.support_vectors = <<kx>>
    /\ kmodel.dual_coef = <<R(1)>> /\ kmodel.intercept = R(0)
    /\ kresult = R(1)

(***************************************************************************)
(* Loading and exporting fitted models                                     *)
(***************************************************************************)
\* two support vectors, one dual coefficient
MismatchedSVR ==
    [kind |-> "svr", kernel |-> "rbf", C |-> R(1), epsilon |-> Frac(1, 10),
     gamma |-> "scale", fitted_gamma |-> R(1), degree |-> 2,
     coef0 |-> R(1), support_vectors |-> SampleVectors,
     dual_coef |-> <<R(60)>>, intercept |-> R(90)]

\* the grid GridSearchCV searches for the SVR
svr_params ==
    [kernel |-> {"rbf", "poly"}, C |-> {1, 10, 100}, gamma |-> {"scale", "auto"}]

\* svr_grid.best_estimator_ for one point of the grid: SVR(kernel, C, gamma)
\* with the other settings at their defaults, fitted
GridSVR(kernel, C, gamma) ==
    [kind |-> "svr", kernel |-> kernel, C |-> R(C), epsilon |-> Frac(1, 10),
     gamma |-> gamma, fitted_gamma |-> Frac(1, 12), degree |-> 3,
     coef0 |-> R(0), support_vectors |-> SampleVectors,
     dual_coef |-> <<R(60), R(-20)>>, intercept |-> R(90)]

GridSVRs ==
    {GridSVR(k, c, g) :
        k \in svr_params.kernel, c \in svr_params.C, g \in svr_params.gamma}

\* three nodes, two thresholds
RaggedTree ==
    [feature        |-> <<0, -2, -2>>,
     threshold      |-> <<R(2), R(-2)>>,
     value          |-> <<R(100), R(30), R(451)>>,
     children_left  |-> <<1, -1, -1>>,
     children_right |-> <<2, -1, -1>>]

RaggedForest == [kind |-> "forest", trees |-> <<TreeB, RaggedTree>>]

\* model files on disk: the fitted estimators, and three damaged ones
LoadModelFiles ==
    ModelFiles \cup {MismatchedSVR, RaggedForest} \cup GridSVRs

\* str(value)
PyStr(value) == [type |-> "str", of |-> value]

\* export_random_forest.py: the arrays of every tree and the scaler's
\* parameters are copied as they are
extract_random_forest_model(model, scaler) ==
    [model_type |-> "RandomForestRegressor",
     model_name |-> "Random Forest",
     n_trees |-> Len(model.trees),
     feature_names |-> feature_names,
     scaler_mean |-> scaler.mean,
     scaler_scale |-> scaler.scale,
     trees |-> [t \in 1..Len(model.trees) |->
                   [feature        |-> model.trees[t].feature,
                    threshold      |-> model.trees[t].threshold,
                    value          |-> model.trees[t].value,
                    children_left  |-> model.trees[t].children_left,
                    children_right |-> model.trees[t].children_right]],
     test_r2_score |-> Frac(9016, 10000),
     test_rmse |-> Frac(1106, 100),
     test_mae |-> Frac(907, 100),
     model_version |-> "4.0"]

\* convert_model_to_json.py: the setting model.gamma is written as a
\* string; the support vectors, dual coefficients and scaler parameters as
\* they are
convert_svm_model_to_json(model, scaler) ==
    [model_type |-> "SVR",
     kernel |-> PyStr(model.kernel),
     C |-> model.C,
     gamma |-> PyStr(model.gamma),
     epsilon |-> model.epsilon,
     intercept |-> model.intercept,
     support_vectors |-> model.support_vectors,
     dual_coefficients |-> model.dual_coef,
     scaler_mean |-> scaler.mean,
     scaler_scale |-> scaler.scale,
     feature_names |-> feature_names]

\* python export_random_forest.py
ExportForest(model_file, scaler_file) ==
    /\ exported = NoFile
    /\ pc = "start"
    /\ model_file.kind = "forest"
    /\ exported' = extract_random_forest_model(model_file, scaler_file)
    /\ UNCHANGED <<pvars, svars, evars, kvars, tvars, mvars, xvars, rvars>>

\* python convert_model_to_json.py
ExportSVR(model_file, scaler_file) ==
    /\ exported = NoFile
    /\ pc = "start"
    /\ model_file.kind = "svr"
    /\ exported' = convert_svm_model_to_json(model_file, scaler_file)
    /\ UNCHANGED <<pvars, svars, evars, kvars, tvars, mvars, xvars, rvars>>

LoadNext ==
    \/ \E m \in LoadModelFiles, s \in ScalerFiles, i \in InfoFiles \cup {NoFile} :
          exported = NoFile /\ Construct(m, s, i)
    \/ \E m \in LoadModelFiles, s \in ScalerFiles : ExportForest(m, s)
    \/ \E m \in LoadModelFiles, s \in ScalerFiles : ExportSVR(m, s)

SpecLoad == Init /\ [][LoadNext]_vars

\* the arrays of a tree have one length and every child index of a
\* non-leaf node is a node of the tree
TreeInvariants(tree) ==
    LET n == Len(tree.feature)
    IN  /\ Len(tree.threshold) = n /\ Len(tree.value) = n
        /\ Len(tree.children_left) = n /\ Len(tree.children_right) = n
        /\ \A k \in 1..n :
              (tree.children_left[k] # -1 \/ tree.children_right[k] # -1)
                  => /\ tree.children_left[k] \in 0..(n - 1)
                     /\ tree.children_right[k] \in 0..(n - 1)

\* a loaded estimator satisfies the structural invariants
ModelInvariants(model) ==
    IF model.kind = "svr"
    THEN Len(model.dual_coef) = Len(model.support_vectors)
    ELSE \A t \in 1..Len(model.trees) : TreeInvariants(model.trees[t])

\* an exported model_data satisfies the structural invariants
ExportInvariants(data) ==
    IF data.model_type = "SVR"
    THEN Len(data.dual_coefficients) = Len(data.support_vectors)
    ELSE \A t \in 1..Len(data.trees) : TreeInvariants(data.trees[t])

\* C10: loading fails when the dual-coefficient count differs from the
\* support-vector count, a tree's arrays have unequal lengths or a non-leaf
\* node's child index is not a node of the tree; so every estimator that
\* was loaded, and every model_data that was written, satisfies these
\* invariants
C10_StructuralInvariants ==
    /\ pc = "ready" => ModelInvariants(predictor.model)
    /\ exported # NoFile => ExportInvariants(exported)

(***************************************************************************)
(* Failures of the two estimators                                          *)
(***************************************************************************)
\* the vector's length differs from 12 or from a support vector's columns
LengthsDiffer ==
    \/ Len(kx) # 12
    \/ \E j \in DOMAIN kmodel.support_vectors :
          Len(kmodel.support_vectors[j]) # Len(kx)

\* C11: kernel prediction fails with ShapeMismatch and returns no number
\* whenever the vector's length differs from 12 or from the support-vector
\* column count, and returns a prediction only when both lengths agree
C11_ShapeMismatch ==
    /\ LengthsDiffer =>
          /\ kpc \in {"sum", "failed"}
          /\ kj = 0 /\ kacc = R(0) /\ kresult = R(0)
          /\ KernelPredict(kmodel, kx) = Raised("ShapeMismatch")
    /\ kpc = "failed" => LengthsDiffer
    /\ kpc = "done" =>
          /\ ~LengthsDiffer
          /\ KernelPredict(kmodel, kx).ok

\* a vector of 12 entries was refused by a model of two-column support
\* vectors
C11_Witness ==
    /\ kpc = "failed"
    /\ Len(kx) = 12
    /\ Len(kmodel.support_vectors[1]) = 2

\* the nodes the walk has read so far: all it entered but the one it is at
NodesRead == {epath[k] : k \in 1..(Len(epath) - 1)}

\* the step at the current node would leave the node arrays or the vector
StepLeavesBounds ==
    \/ enode \notin 0..(Len(CurrentTree.feature) - 1)
    \/ enode + 1 \notin DOMAIN CurrentTree.children_left
    \/ enode + 1 \notin DOMAIN CurrentTree.children_right
    \/ enode + 1 \notin DOMAIN CurrentTree.threshold
    \/ /\ ~(CurrentTree.children_left[enode + 1] = -1
              /\ CurrentTree.children_right[enode + 1] = -1)
       /\ CurrentTree.feature[enode + 1] \notin 0..(Len(ex) - 1)

\* C12: where the traversal would move to a node index outside the tree's
\* node arrays, or read a feature index outside the vector, the ensemble
\* prediction fails with CorruptArtifact at or before that step: nothing
\* outside the arrays or the vector is read, no value is returned, and no
\* walk is longer than the tree has nodes
C12_CorruptArtifact ==
    /\ epc \in {"walk", "failed"} =>
          /\ NodesRead \subseteq 0..(Len(CurrentTree.feature) - 1)
          /\ ereads \subseteq 0..(Len(ex) - 1)
          /\ Len(epath) <= Len(CurrentTree.feature) + 1
          /\ eresult = R(0)
    /\ (epc = "walk" /\ StepLeavesBounds) =>
          /\ ENABLED EnsembleCorrupt
          /\ ~ENABLED EnsembleDescend
          /\ ~ENABLED EnsembleLeaf
    /\ epc = "failed" =>
          /\ StepLeavesBounds \/ Len(epath) > Len(CurrentTree.feature)
          /\ Len(eouts) < Len(emodel.trees)
          /\ ForestPredict(emodel, ex) = Raised("CorruptArtifact")
    /\ epc = "done" => ForestPredict(emodel, ex).ok

\* the walk stopped on the child index 7 of a tree of two nodes
C12_Witness ==
    /\ epc = "failed"
    /\ CurrentTree = DanglingTree
    /\ enode = 7
    /\ StepLeavesBounds

(***************************************************************************)
(* What the exporters write                                                *)
(***************************************************************************)
\* a JSON number, as opposed to a JSON string
IsNumber(v) == DOMAIN v = {"n", "d"}

\* C13: in every kernel model file the exporter writes, gamma is a resolved
\* number usable in the kernel formula, never the setting "scale" or "auto"
C13_GammaResolved ==
    (exported # NoFile /\ exported.model_type = "SVR") =>
        /\ IsNumber(exported.gamma)
        /\ exported.gamma \notin {PyStr("scale"), PyStr("auto")}

\* C14: every ensemble artifact carries a scaling-required flag that says
\* whether the trees were trained on scaled inputs (they were: the trainer
\* fits every model on the scaler's output), which predict consults before
\* it normalizes
C14_ScalingFlag ==
    (exported # NoFile /\ exported.model_type = "RandomForestRegressor") =>
        /\ "scaling_required" \in DOMAIN exported
        /\ exported.scaling_required = TRUE

(***************************************************************************)
(* predict followed statement by statement, called by concurrent threads   *)
(* on one predictor                                                        *)
(***************************************************************************)
NThreads == 2

Threads == 1..NThreads

ThreadModels ==
    { ConstantForest(R(10)), ConstantForest(R(1000)),
      ConstantForest(Frac(12345, 100)), ConstantForest(Frac(39996, 100)),
      SampleForest, SampleSVR("rbf") }

ThreadScalers == {IdentityScaler, FittedScaler, ZeroScaleScaler}

ThreadInfos ==
    { InfoV4("SVM", "SVR", Frac(9852, 10000), Frac(461, 100), Frac(350, 100)),
      InfoV3(Frac(40, 100)) }

\* readings the threads call predict with
ThreadReadings ==
    { <<>>, << <<"CAPE", R(3)>>, <<"SRH", R(2)>> >> }

\* the locals of a call that has not started
NewFrame(atmospheric_data) ==
    [pc |-> "map", data |-> atmospheric_data, features |-> <<>>,
     features_scaled |-> <<>>, raw |-> R(0), prediction |-> R(0),
     outcome |-> NoCall, steps |-> <<>>]

ThreadInit ==
    /\ pc = "ready"
    /\ predictor \in
          {NewPredictor(m, sc, info).value :
              m \in ThreadModels, sc \in ThreadScalers, info \in ThreadInfos}
    /\ call = NoCall /\ data_list = <<>> /\ results = <<>> /\ bpc = "idle"
    /\ frames \in [Threads -> {NewFrame(d) : d \in ThreadReadings}]
    /\ SchemaIdle /\ EnsembleIdle /\ KernelIdle /\ LoadIdle /\ TrainerIdle /\ TestIdle /\ PipelineIdle

\* features = np.array([[atmospheric_data.get(...), ...]])
ThreadExtract(t) ==
    /\ frames[t].pc = "map"
    /\ frames' = [frames EXCEPT ![t].features = ExtractFeatures(frames[t].data),
                                ![t].steps = Append(@, "map"),
                                ![t].pc = "scale"]
    /\ UNCHANGED <<pvars, svars, evars, kvars, lvars, mvars, xvars, rvars>>

\* the scaler fitted again on the row: self.scaler.fit_transform(features)
ThreadScale_Refits(t) ==
    /\ frames[t].pc = "scale"
    /\ predictor' = [predictor EXCEPT !.scaler =
                        [mean |-> frames[t].features, scale |-> Vec(R(1), {})]]
    /\ frames' = [frames EXCEPT ![t].features_scaled = Vec(R(0), {}),
                                ![t].steps = Append(@, "scale"),
                                ![t].pc = "infer"]
    /\ UNCHANGED <<pc, call, data_list, results, bpc>>
    /\ UNCHANGED <<svars, evars, kvars, lvars, mvars, xvars, rvars>>

\* features_scaled = self.scaler.transform(features)
ThreadScale(t) ==
    /\ frames[t].pc = "scale"
    /\ frames' = [frames EXCEPT
                     ![t].features_scaled =
                         ScalerTransform(predictor.scaler, frames[t].features),
                     ![t].steps = Append(@, "scale"),
                     ![t].pc = "infer"]
    /\ UNCHANGED <<pvars, svars, evars, kvars, lvars, mvars, xvars, rvars>>

\* prediction = self.model.predict(features_scaled)[0]
ThreadInfer(t) ==
    /\ frames[t].pc = "infer"
    /\ LET out == ModelPredict(predictor.model, frames[t].features_scaled)
       IN  frames' = IF out.ok
                     THEN [frames EXCEPT ![t].raw = out.value,
                                         ![t].prediction = out.value,
                                         ![t].steps = Append(@, "infer"),
                                         ![t].pc = "clamp"]
                     ELSE [frames EXCEPT ![t].outcome = out,
                                         ![t].steps = Append(@, "infer"),
                                         ![t].pc = "raised"]
    /\ UNCHANGED <<pvars, svars, evars, kvars, lvars, mvars, xvars, rvars>>

\* prediction = max(50, min(400, prediction))
ThreadClamp(t) ==
    /\ frames[t].pc = "clamp"
    /\ frames' = [frames EXCEPT
                     ![t].prediction = ClampPrediction(frames[t].prediction),
                     ![t].steps = Append(@, "clamp"),
                     ![t].pc = "return"]
    /\ UNCHANGED <<pvars, svars, evars, kvars, lvars, mvars, xvars, rvars>>

\* return {...}: round(prediction, 1), then the reads of self.model_info
ThreadReturn(t) ==
    /\ frames[t].pc = "return"
    /\ LET windspeed == Round1(frames[t].prediction)
       IN  frames' =
             IF InfoKeysRead \subseteq DOMAIN predictor.model_info
             THEN [frames EXCEPT
                     ![t].outcome = Returned(
                        [predicted_windspeed_mph |-> windspeed,
                         model_name     |-> predictor.model_info.model_name,
                         model_r2_score |-> predictor.model_info.test_r2_score,
                         model_rmse     |-> predictor.model_info.test_rmse,
                         confidence     |->
                             Confidence(predictor.model_info.test_r2_score),
                         features_used  |-> predictor.feature_names]),
                     ![t].steps = Append(@, "round"),
                     ![t].pc = "returned"]
             ELSE [frames EXCEPT ![t].outcome = Raised("KeyError"),
                                 ![t].steps = Append(@, "round"),
                                 ![t].pc = "raised"]
    /\ UNCHANGED <<pvars, svars, evars, kvars, lvars, mvars, xvars, rvars>>

ThreadNext ==
    \E t \in Threads :
        \/ ThreadExtract(t)
        \/ ThreadScale(t)
        \/ ThreadInfer(t)
        \/ ThreadClamp(t)
        \/ ThreadReturn(t)

SpecThreads == ThreadInit /\ [][ThreadNext]_vars

\* the threads whose call has passed the scaling statement
Scaled == {t \in Threads : frames[t].pc \notin {"map", "scale"}}

\* (v - m) / sc, worked out on numerators and denominators
Quotient(v, m, sc) ==
    Frac((v.n * m.d - m.n * v.d) * sc.d, v.d * m.d * sc.n)

\* C15: for every 12-vector v and every scaler whose scale entries are all
\* positive, normalize(v)[i] = (v[i] - mean[i]) / scale[i] at every position,
\* normalize(v)[i] * scale[i] + mean[i] gives v[i] back, and v, mean and
\* scale are what they were
C15_NormalizeInvertible ==
    \A t \in Scaled :
        LET v  == frames[t].features
            z  == frames[t].features_scaled
            m  == predictor.scaler.mean
            sc == predictor.scaler.scale
        IN  (\A i \in 1..12 : sc[i].d > 0 /\ sc[i].n > 0) =>
               /\ Len(v) = 12 /\ Len(z) = 12
               /\ \A i \in 1..12 :
                     /\ z[i] = Quotient(v[i], m[i], sc[i])
                     /\ RAdd(RMul(z[i], sc[i]), m[i]) = v[i]
               /\ v = ExtractFeatures(frames[t].data)
               /\ predictor.scaler \in ThreadScalers

\* CAPE 3 was normalized to (3 - 2) / 2 by the fitted scaler
C15_Witness ==
    \E t \in Scaled :
        /\ predictor.scaler = FittedScaler
        /\ frames[t].features[1] = R(3)
        /\ frames[t].features_scaled[1] = Frac(1, 2)
        /\ frames[t].features_scaled[2] = R(1)

\* C16: no predict call changes the loaded model, scaler, feature names or
\* metadata, so under every interleaving of concurrent calls each call ends
\* as it would have ended alone
C16_NoSharedMutation ==
    /\ [][predictor' = predictor]_vars
    /\ [](\A t \in Threads :
             frames[t].pc \in {"returned", "raised"} =>
                 frames[t].outcome = Predict(predictor, frames[t].data))

\* one call has returned while another, on a different reading, is between
\* its scaling and its inference
C16_Witness ==
    /\ frames[1].pc = "returned"
    /\ frames[2].pc = "infer"
    /\ frames[1].data # frames[2].data
    /\ frames[1].outcome = Predict(predictor, frames[1].data)

StepOrder == <<"map", "scale", "infer", "clamp", "round">>

\* x is a multiple of 1/10
OneDecimal(x) == x.d > 0 /\ (10 * x.n) % x.d = 0

\* |x - y| <= 1/20
WithinHalfTenth(x, y) ==
    LET diff == x.n * y.d - y.n * x.d
    IN  20 * Abs(diff) <= x.d * y.d

\* C20: predict maps, scales, infers, clamps and rounds in this order; the
\* windspeed reported is the clamped value rounded to one decimal place,
\* and it is still inside [50, 400]
C20_StepOrder ==
    \A t \in Threads :
        LET f == frames[t]
        IN  /\ f.steps = SubSeq(StepOrder, 1, Len(f.steps))
            /\ f.pc \in {"return", "returned"} =>
                  /\ Below50(f.raw) => f.prediction = R(50)
                  /\ Above400(f.raw) => f.prediction = R(400)
                  /\ Within50To400(f.raw) => f.prediction = f.raw
            /\ f.pc = "returned" =>
                  /\ f.steps = StepOrder
                  /\ OneDecimal(f.outcome.value.predicted_windspeed_mph)
                  /\ WithinHalfTenth(f.outcome.value.predicted_windspeed_mph,
                                     f.prediction)
                  /\ Within50To400(f.outcome.value.predicted_windspeed_mph)

\* the raw output 399.96 passed the clamp unchanged and was then rounded
\* to 400
C20_Witness ==
    \E t \in Threads :
        /\ frames[t].pc = "returned"
        /\ frames[t].steps = StepOrder
        /\ frames[t].raw = Frac(39996, 100)
        /\ frames[t].prediction = Frac(39996, 100)
        /\ frames[t].outcome.value.predicted_windspeed_mph = R(400)

(***************************************************************************)
(* Errors of predict and predict_batch                                     *)
(***************************************************************************)
\* what can end a predict call other than a result
PredictErrors == {"CorruptArtifact", "ShapeMismatch", "ValueError", "KeyError"}

\* C17: an error during a predict call ends the call with that error and
\* no result, never a fallback windspeed; in predict_batch the error of a
\* record ends the batch with no substitute result for that record
C17_ErrorsSurface ==
    /\ call.kind = "predict" =>
          LET raw == RawPrediction(predictor, call.data)
          IN  /\ ~raw.ok => call.outcome = Raised(raw.error)
              /\ ~call.outcome.ok =>
                    /\ call.outcome.error \in PredictErrors
                    /\ DOMAIN call.outcome = {"ok", "error"}
    /\ \A i \in 1..Len(results) :
          /\ RawPrediction(predictor, data_list[i]).ok
          /\ results[i] = Predict(predictor, data_list[i]).value
    /\ bpc = "returned" =>
          /\ Len(results) = Len(data_list)
          /\ \A i \in 1..Len(data_list) : Predict(predictor, data_list[i]).ok
    /\ bpc = "raised" =>
          /\ Len(results) < Len(data_list)
          /\ ~Predict(predictor, data_list[Len(results) + 1]).ok
          /\ ~ENABLED BatchIterate
          /\ ~ENABLED BatchReturn

\* the second record of a batch ran into the dangling child: the batch
\* ended there, holding the first record's result only
C17_Witness ==
    /\ bpc = "raised"
    /\ Len(data_list) = 2
    /\ Len(results) = 1
    /\ predictor.model = DanglingForest
    /\ RawPrediction(predictor, data_list[2]) = Raised("CorruptArtifact")

\* the keys the metadata file is to carry
InfoKeysRequired ==
    {"model_name", "model_type", "test_r2_score", "test_rmse", "test_mae",
     "cv_mean_r2", "cv_std_r2", "feature_importance"}

\* C18: every model_info.json a trainer writes carries model_name,
\* model_type, test_r2_score, test_rmse, test_mae, cv_mean_r2, cv_std_r2 and
\* feature_importance, so no predict call on a predictor constructed from
\* it fails on a missing key
C18_InfoKeysComplete ==
    pc = "ready" =>
        /\ InfoKeysRequired \subseteq DOMAIN predictor.model_info
        /\ call.kind = "predict" => call.outcome # Raised("KeyError")

(***************************************************************************)
(* models/tornado_model_trainer.py: train_multiple_models, main,           *)
(* save_model_artifacts                                                    *)
(***************************************************************************)
\* the six families in the order they are trained, with the estimator type
Families ==
    << <<"Random Forest", "RandomForestRegressor">>,
       <<"Gradient Boosting", "GradientBoostingRegressor">>,
       <<"AdaBoost", "AdaBoostRegressor">>,
       <<"SVM", "SVR">>,
       <<"Neural Network", "MLPRegressor">>,
       <<"Ridge", "Ridge">> >>

NFamilies == 6

\* R2 scores a fitted model can have on the test set
R2Samples == {Frac(45, 100), Frac(9016, 10000), Frac(9852, 10000)}

\* a grid's best estimator: its type and what it scores on the test set and
\* under cross-validation; on one test set the RMSE falls as R2 rises
FittedModel(i, r2) ==
    [model_type |-> Families[i][2],
     test_r2 |-> r2,
     test_rmse |-> RMul(R(40), RSub(R(1), r2)),
     test_mae |-> RAdd(RMul(R(30), RSub(R(1), r2)), Frac(i, 100)),
     cv_mean_r2 |-> RSub(r2, Frac(i, 100)),
     cv_std_r2 |-> Frac(i, 100)]

\* r2_score, RMSE and MAE of model.predict(X_test)
Evaluate(model) ==
    [test_r2 |-> model.test_r2, test_rmse |-> model.test_rmse,
     test_mae |-> model.test_mae]

\* cross_val_score(model, X, y, cv=5, scoring='r2'): mean and std
CrossValidate(model) ==
    [cv_mean_r2 |-> model.cv_mean_r2, cv_std_r2 |-> model.cv_std_r2]

\* the row results.append({...}) adds for family i
ResultRow(i, model) ==
    [Model |-> Families[i][1], R2_Test |-> Evaluate(model).test_r2,
     RMSE |-> Evaluate(model).test_rmse, MAE |-> Evaluate(model).test_mae]

\* the orders the rows numbered in S can be put in
RECURSIVE OrdersOf(_)
OrdersOf(S) ==
    IF S = {} THEN {<<>>}
    ELSE UNION {{<<i>> \o p : p \in OrdersOf(S \ {i})} : i \in S}

RowOrders == OrdersOf(1..NFamilies)

\* the rows in ascending order of R2_Test
SortedByR2_Ascending(rows) ==
    \A k \in 1..(Len(rows) - 1) : RLeq(rows[k].R2_Test, rows[k + 1].R2_Test)

\* sort_values('R2_Test', ascending=False): no row before one of higher R2
SortedByR2(rows) ==
    \A k \in 1..(Len(rows) - 1) : RLeq(rows[k + 1].R2_Test, rows[k].R2_Test)

\* models[name]
ModelNamed(models, name) ==
    models[CHOOSE i \in 1..NFamilies : Families[i][1] = name]

\* a Python string as the sequence of its characters
NameChars(name) ==
    CASE name = "Random Forest" ->
           << "R", "a", "n", "d", "o", "m", " ", "F", "o", "r", "e", "s", "t" >>
      [] name = "Gradient Boosting" ->
           << "G", "r", "a", "d", "i", "e", "n", "t", " ", "B", "o", "o", "s",
              "t", "i", "n", "g" >>
      [] name = "AdaBoost" ->
           << "A", "d", "a", "B", "o", "o", "s", "t" >>
      [] name = "SVM" ->
           << "S", "V", "M" >>
      [] name = "Neural Network" ->
           << "N", "e", "u", "r", "a", "l", " ", "N", "e", "t", "w", "o", "r",
              "k" >>
      [] name = "Ridge" ->
           << "R", "i", "d", "g", "e" >>

\* the lower-case letter of every upper-case one
LowerOf ==
    [A |-> "a", B |-> "b", C |-> "c", D |-> "d", E |-> "e", F |-> "f",
     G |-> "g", H |-> "h", I |-> "i", J |-> "j", K |-> "k", L |-> "l",
     M |-> "m", N |-> "n", O |-> "o", P |-> "p", Q |-> "q", R |-> "r",
     S |-> "s", T |-> "t", U |-> "u", V |-> "v", W |-> "w", X |-> "x",
     Y |-> "y", Z |-> "z"]

\* str.lower()
PyLower(chars) ==
    [k \in 1..Len(chars) |->
        IF chars[k] \in DOMAIN LowerOf THEN LowerOf[chars[k]] ELSE chars[k]]

\* str.replace(old, new) for single characters
PyReplace(chars, old, new) ==
    [k \in 1..Len(chars) |-> IF chars[k] = old THEN new ELSE chars[k]]

\* f'tornado_{best_model_name.lower().replace(" ", "_")}_model.pkl'
ModelFileName(best_model_name) ==
    << "t", "o", "r", "n", "a", "d", "o", "_" >>
        \o PyReplace(PyLower(NameChars(best_model_name)), " ", "_")
        \o
    << "_", "m", "o", "d", "e", "l", ".", "p", "k", "l" >>

ScalerFileName ==
    << "t", "o", "r", "n", "a", "d", "o", "_", "s", "c", "a", "l", "e",
       "r", ".", "p", "k", "l" >>

ComparisonFileName ==
    << "m", "o", "d", "e", "l", "_", "c", "o", "m", "p", "a", "r", "i",
       "s", "o", "n", "_", "r", "e", "s", "u", "l", "t", "s", ".", "c",
       "s", "v" >>

InfoFileName ==
    << "m", "o", "d", "e", "l", "_", "i", "n", "f", "o", ".", "j", "s",
       "o", "n" >>

\* the model_path TornadoPredictor opens when it is given none
DefaultModelPath ==
    << "t", "o", "r", "n", "a", "d", "o", "_", "s", "v", "m", "_", "m",
       "o", "d", "e", "l", ".", "p", "k", "l" >>

\* the scaler_path TornadoPredictor opens when it is given none
DefaultScalerPath ==
    << "t", "o", "r", "n", "a", "d", "o", "_", "s", "c", "a", "l", "e",
       "r", ".", "p", "k", "l" >>

\* after the six fits: models and results as the six blocks leave them
TrainerInit ==
    /\ \E r2 \in [1..NFamilies -> R2Samples] :
          LET models == [i \in 1..NFamilies |-> FittedModel(i, r2[i])]
          IN  trainer = [pc |-> "fitted",
                         models |-> models,
                         results |-> [i \in 1..NFamilies |-> ResultRow(i, models[i])]]
    /\ PredictorIdle /\ SchemaIdle /\ EnsembleIdle /\ KernelIdle /\ LoadIdle
    /\ ThreadIdle /\ TestIdle /\ PipelineIdle

\* results_df = pd.DataFrame(results).sort_values('R2_Test', ascending=False);
\* rows of equal R2_Test come in any order
TrainSort ==
    /\ trainer.pc = "fitted"
    /\ \E p \in RowOrders :
          LET rows == [k \in 1..NFamilies |-> trainer.results[p[k]]]
          IN  /\ SortedByR2(rows)
              /\ trainer' = [pc |-> "sorted", models |-> trainer.models,
                             results |-> trainer.results, results_df |-> rows]
    /\ UNCHANGED <<pvars, svars, evars, kvars, lvars, tvars, xvars, rvars>>

\* best_model_name = results_df.iloc[0]['Model'];
\* best_model = models[best_model_name]; return
TrainSelect ==
    /\ trainer.pc = "sorted"
    /\ LET name == trainer.results_df[1].Model
       IN  trainer' = [pc |-> "selected", models |-> trainer.models,
                       results |-> trainer.results,
                       results_df |-> trainer.results_df,
                       best_model_name |-> name,
                       best_model |-> ModelNamed(trainer.models, name)]
    /\ UNCHANGED <<pvars, svars, evars, kvars, lvars, tvars, xvars, rvars>>

\* main: the best model measured again on the test set and cross-validated,
\* then save_model_artifacts: the model file's name and model_info.json
TrainSave ==
    /\ trainer.pc = "selected"
    /\ LET best == trainer.best_model
           model_metrics == Evaluate(best)
           cv_scores == CrossValidate(best)
       IN  trainer' =
             [pc |-> "saved", models |-> trainer.models,
              results |-> trainer.results,
              results_df |-> trainer.results_df,
              best_model_name |-> trainer.best_model_name,
              best_model |-> best,
              saved_model |-> best,
              model_filename |-> ModelFileName(trainer.best_model_name),
              files |-> {ModelFileName(trainer.best_model_name), ScalerFileName,
                         ComparisonFileName, InfoFileName},
              model_info |->
                 [model_type |-> best.model_type,
                  model_name |-> trainer.best_model_name,
                  feature_names |-> feature_names,
                  test_r2_score |-> model_metrics.test_r2,
                  test_rmse |-> model_metrics.test_rmse,
                  test_mae |-> model_metrics.test_mae,
                  cv_mean_r2 |-> cv_scores.cv_mean_r2,
                  cv_std_r2 |-> cv_scores.cv_std_r2,
                  feature_importance |-> <<>>,
                  model_version |-> "4.0",
                  all_models_tested |->
                     [k \in 1..NFamilies |-> trainer.results_df[k].Model]]]
    /\ UNCHANGED <<pvars, svars, evars, kvars, lvars, tvars, xvars, rvars>>

TrainerNext ==
    \/ TrainSort
    \/ TrainSelect
    \/ TrainSave

SpecTrainer == TrainerInit /\ [][TrainerNext]_vars

\* the family a name belongs to
FamilyIndex(name) == CHOOSE i \in 1..NFamilies : Families[i][1] = name

IndicesValid(tree) ==
    LET n == Len(tree.feature)
    IN  /\ n >= 1
        /\ Len(tree.threshold) = n /\ Len(tree.value) = n
        /\ Len(tree.children_left) = n /\ Len(tree.children_right) = n
        /\ \A k \in 1..n :
              \/ tree.children_left[k] = -1 /\ tree.children_right[k] = -1
              \/ /\ tree.children_left[k] \in 0..(n - 1)
                 /\ tree.children_right[k] \in 0..(n - 1)
                 /\ tree.feature[k] \in 0..11

ForestIndicesValid(model) ==
    \A t \in 1..Len(model.trees) : IndicesValid(model.trees[t])

\* the walk has come back to a node it had entered before
Revisits(path) == \E i, j \in 1..Len(path) : i < j /\ path[i] = path[j]

SiblingTrainer == "src/tornado_model_trainer.py"

MultiModelTrainer == "src/models/tornado_model_trainer.py"

\* sys.path.insert(0, os.getcwd()): the working directory decides which
\* tornado_model_trainer module the import statement finds
TrainerModules == {SiblingTrainer, MultiModelTrainer}

\* the values main() hands back, by the name each has in main's return
MainReturns(module) ==
    IF module = SiblingTrainer
    THEN <<"rf_model", "scaler", "importance_df", "corr_matrix">>
    ELSE <<"best_model", "scaler", "results_df", "importance_df", "corr_matrix">>

\* what can stop main() before its return: the CSV is not in the working
\* directory, a column is missing, the data cannot be fitted
MainErrors == {"FileNotFoundError", "KeyError", "ValueError", "MemoryError"}

MainOutcomes(module) ==
    {Returned([values |-> MainReturns(module), test_r2 |-> r]) : r \in R2Samples}
        \cup {Raised(e) : e \in MainErrors}

\* the trainer module imports pandas, sklearn, matplotlib, seaborn, joblib
ImportOutcomes == {"ok", "ModuleNotFoundError", "ImportError"}

\* model, scaler, results, importance, correlations = ...
UnpackTargets == <<"model", "scaler", "results", "importance", "correlations">>

\* tuple unpacking: as many values as targets, or ValueError
Unpack(targets, values) ==
    IF Len(values) = Len(targets)
    THEN Returned([i \in 1..Len(targets) |-> <<targets[i], values[i]>>])
    ELSE Raised("ValueError")

StartingLine == "Starting model training..."

SuccessLine == "[SUCCESS] Training completed successfully!"

ErrorLine(e) == <<"[ERROR] Error during training:", e>>

TestInit ==
    /\ \E module \in TrainerModules, imp \in ImportOutcomes :
         \E outcome \in MainOutcomes(module) :
            testrun = [kind |-> "script", pc |-> "line9", module |-> module,
                       import |-> imp, main |-> outcome, called |-> FALSE,
                       bound |-> <<>>, caught |-> "none", stdout |-> <<>>,
                       exit_status |-> "running"]
    /\ PredictorIdle /\ SchemaIdle /\ EnsembleIdle /\ KernelIdle /\ LoadIdle
    /\ ThreadIdle /\ TrainerIdle /\ PipelineIdle

\* line 9
TestStart ==
    /\ testrun.kind = "script" /\ testrun.pc = "line9"
    /\ testrun' = [testrun EXCEPT !.pc = "line10",
                                  !.stdout = Append(@, StartingLine)]
    /\ UNCHANGED <<pvars, svars, evars, kvars, lvars, tvars, mvars, rvars>>

\* line 10: from tornado_model_trainer import main
TestImport ==
    /\ testrun.kind = "script" /\ testrun.pc = "line10"
    /\ testrun' = IF testrun.import = "ok"
                  THEN [testrun EXCEPT !.pc = "line11"]
                  ELSE [testrun EXCEPT !.pc = "except", !.caught = testrun.import]
    /\ UNCHANGED <<pvars, svars, evars, kvars, lvars, tvars, mvars, rvars>>

\* line 11: call main() and unpack its return value into five names
TestCallMain ==
    /\ testrun.kind = "script" /\ testrun.pc = "line11"
    /\ LET outcome == testrun.main
           unpacked == Unpack(UnpackTargets, outcome.value.values)
       IN  testrun' =
             IF ~outcome.ok
             THEN [testrun EXCEPT !.called = TRUE, !.pc = "except",
                                  !.caught = outcome.error]
             ELSE IF ~unpacked.ok
             THEN [testrun EXCEPT !.called = TRUE, !.pc = "except",
                                  !.caught = unpacked.error]
             ELSE [testrun EXCEPT !.called = TRUE, !.pc = "line12",
                                  !.bound = unpacked.value]
    /\ UNCHANGED <<pvars, svars, evars, kvars, lvars, tvars, mvars, rvars>>

\* line 12, then the script runs off its end
TestSuccess ==
    /\ testrun.kind = "script" /\ testrun.pc = "line12"
    /\ testrun' = [testrun EXCEPT !.pc = "done", !.exit_status = 0,
                                  !.stdout = Append(@, SuccessLine)]
    /\ UNCHANGED <<pvars, svars, evars, kvars, lvars, tvars, mvars, rvars>>

\* lines 13-17: except Exception: report, print the traceback, sys.exit(1)
TestExcept ==
    /\ testrun.kind = "script" /\ testrun.pc = "except"
    /\ testrun' = [testrun EXCEPT !.pc = "done", !.exit_status = 1,
                                  !.stdout = Append(@, ErrorLine(testrun.caught))]
    /\ UNCHANGED <<pvars, svars, evars, kvars, lvars, tvars, mvars, rvars>>

TestNext ==
    \/ TestStart
    \/ TestImport
    \/ TestCallMain
    \/ TestSuccess
    \/ TestExcept

SpecTest == TestInit /\ [][TestNext]_vars

(***************************************************************************)
(* run_training.py: install the requirements when the file is there, then  *)
(* run the trainer script, each as a child process that is waited for      *)
(***************************************************************************)
\* return codes of a child process: success, failures, killed by a signal
ExitCodes == {0, 1, 2, -9}

check_call_StatusIgnored(returncode) == Returned(returncode)

\* subprocess.check_call: waits for the child; a non-zero return code is
\* raised as CalledProcessError
check_call(returncode) ==
    IF returncode = 0 THEN Returned(0) ELSE Raised("CalledProcessError")

BannerLine == "=== Twisted Tornado Model Training Pipeline ==="

InstallingLine == "Installing required packages..."

SkippingLine == "requirements.txt not found, skipping package installation"

RunningLine == "Running tornado model training..."

CompletedLine == "Training pipeline completed!"

PipelineInit ==
    /\ \E exists \in BOOLEAN, pip \in ExitCodes, train \in ExitCodes :
          pipeline = [kind |-> "pipeline", pc |-> "line22",
                      requirements |-> exists, pip_exit |-> pip,
                      train_exit |-> train, trace |-> <<>>,
                      exit_status |-> "running"]
    /\ PredictorIdle /\ SchemaIdle /\ EnsembleIdle /\ KernelIdle /\ LoadIdle
    /\ ThreadIdle /\ TrainerIdle /\ TestIdle

\* line 22 and the test of line 25
PipeBanner ==
    /\ pipeline.kind = "pipeline" /\ pipeline.pc = "line22"
    /\ pipeline' = [pipeline EXCEPT
                      !.pc = IF pipeline.requirements THEN "line26" ELSE "line28",
                      !.trace = Append(@, BannerLine)]
    /\ UNCHANGED <<pvars, svars, evars, kvars, lvars, tvars, mvars, xvars>>

\* line 26: install_requirements prints and starts pip
PipeInstallStart ==
    /\ pipeline.kind = "pipeline" /\ pipeline.pc = "line26"
    /\ pipeline' = [pipeline EXCEPT
                      !.pc = "line13",
                      !.trace = @ \o <<InstallingLine, "pip started">>]
    /\ UNCHANGED <<pvars, svars, evars, kvars, lvars, tvars, mvars, xvars>>

\* line 13: pip has exited; check_call returns or raises, and nothing in
\* main catches what it raises
PipeInstallExit ==
    /\ pipeline.kind = "pipeline" /\ pipeline.pc = "line13"
    /\ pipeline' =
         IF check_call(pipeline.pip_exit).ok
         THEN [pipeline EXCEPT !.pc = "line31",
                               !.trace = Append(@, "pip exited")]
         ELSE [pipeline EXCEPT !.pc = "done", !.exit_status = 1,
                               !.trace = Append(@, "pip exited")]
    /\ UNCHANGED <<pvars, svars, evars, kvars, lvars, tvars, mvars, xvars>>

\* line 28
PipeSkip ==
    /\ pipeline.kind = "pipeline" /\ pipeline.pc = "line28"
    /\ pipeline' = [pipeline EXCEPT !.pc = "line31",
                                    !.trace = Append(@, SkippingLine)]
    /\ UNCHANGED <<pvars, svars, evars, kvars, lvars, tvars, mvars, xvars>>

\* line 31: run_training prints and starts the trainer script
PipeTrainStart ==
    /\ pipeline.kind = "pipeline" /\ pipeline.pc = "line31"
    /\ pipeline' = [pipeline EXCEPT
                      !.pc = "line18",
                      !.trace = @ \o <<RunningLine, "trainer started">>]
    /\ UNCHANGED <<pvars, svars, evars, kvars, lvars, tvars, mvars, xvars>>

\* line 18: the trainer script has exited
PipeTrainExit ==
    /\ pipeline.kind = "pipeline" /\ pipeline.pc = "line18"
    /\ pipeline' =
         IF check_call(pipeline.train_exit).ok
         THEN [pipeline EXCEPT !.pc = "line33",
                               !.trace = Append(@, "trainer exited")]
         ELSE [pipeline EXCEPT !.pc = "done", !.exit_status = 1,
                               !.trace = Append(@, "trainer exited")]
    /\ UNCHANGED <<pvars, svars, evars, kvars, lvars, tvars, mvars, xvars>>

\* line 33, then main returns
PipeComplete ==
    /\ pipeline.kind = "pipeline" /\ pipeline.pc = "line33"
    /\ pipeline' = [pipeline EXCEPT !.pc = "done", !.exit_status = 0,
                                    !.trace = Append(@, CompletedLine)]
    /\ UNCHANGED <<pvars, svars, evars, kvars, lvars, tvars, mvars, xvars>>

PipelineNext ==
    \/ PipeBanner
    \/ PipeInstallStart
    \/ PipeInstallExit
    \/ PipeSkip
    \/ PipeTrainStart
    \/ PipeTrainExit
    \/ PipeComplete

SpecPipeline == PipelineInit /\ [][PipelineNext]_vars

(***************************************************************************)
(* Files the trainer leaves for the predictor                              *)
(***************************************************************************)
\* C22: after a completed run of the multi-model trainer the model file the
\* predictor opens by default and the scaler file have both been written by
\* that run, whichever family was selected; the saved model file's name is
\* the name the predictor opens
C22_DefaultModelWritten ==
    trainer.pc = "saved" =>
        /\ DefaultModelPath \in trainer.files
        /\ DefaultScalerPath \in trainer.files
        /\ trainer.model_filename = DefaultModelPath

(***************************************************************************)
(* The verdict of test_training.py                                         *)
(***************************************************************************)
SuccessPrinted ==
    \E i \in 1..Len(testrun.stdout) : testrun.stdout[i] = SuccessLine

\* C23: run with the trainer module beside it, the test script prints the
\* success line and does not exit with status 1 whenever main() returned
\* normally, exits with status 1 only when main() raised, and unpacks as
\* many values as main() returns
C23_TestVerdictFollowsMain ==
    ( /\ testrun.kind = "script" /\ testrun.pc = "done"
      /\ testrun.module = SiblingTrainer
      /\ testrun.called ) =>
        /\ testrun.main.ok => (SuccessPrinted /\ testrun.exit_status # 1)
        /\ testrun.exit_status = 1 => ~testrun.main.ok
        /\ testrun.main.ok =>
              Len(UnpackTargets) = Len(testrun.main.value.values)

(***************************************************************************)
(* Order of the steps of run_training.main                                 *)
(***************************************************************************)
\* where an entry stands in the trace of the pipeline, 0 when it is absent
PositionOf(entry) ==
    IF \E i \in 1..Len(pipeline.trace) : pipeline.trace[i] = entry
    THEN CHOOSE i \in 1..Len(pipeline.trace) : pipeline.trace[i] = entry
    ELSE 0

Happened(entry) == PositionOf(entry) > 0

\* C24: the installation runs exactly when requirements.txt exists and has
\* finished before the training starts; the training starts only after the
\* installation was skipped or succeeded; the completion line is printed
\* only after the training process exited with status 0
C24_PipelineOrder ==
    pipeline.kind = "pipeline" =>
        /\ Happened("pip started") => pipeline.requirements
        /\ (pipeline.requirements /\ pipeline.pc \notin {"line22", "line26"})
              => Happened("pip started")
        /\ Happened("trainer started") =>
              \/ /\ Happened("pip exited")
                 /\ PositionOf("pip exited") < PositionOf("trainer started")
                 /\ pipeline.pip_exit = 0
              \/ /\ ~Happened("pip started")
                 /\ Happened(SkippingLine)
                 /\ PositionOf(SkippingLine) < PositionOf("trainer started")
        /\ Happened(CompletedLine) =>
              /\ Happened("trainer exited")
              /\ PositionOf("trainer exited") < PositionOf(CompletedLine)
              /\ pipeline.train_exit = 0
              /\ Happened("pip started") => pipeline.pip_exit = 0

\* a run that installed, trained and reported completion
C24_Witness ==
    /\ pipeline.kind = "pipeline" /\ pipeline.pc = "done"
    /\ pipeline.requirements
    /\ pipeline.trace = <<BannerLine, InstallingLine, "pip started",
                          "pip exited", RunningLine, "trainer started",
                          "trainer exited", CompletedLine>>
    /\ pipeline.exit_status = 0

=============================================================================
